---- MODULE Spec2Model ----
(***************************************************************************)
(* A model of the market scripts of the repository:                        *)
(*   - 11bot.py        monitor_market, the polling loop with three alert   *)
(*                     rules (specification Spec);                         *)
(*   - ZF1.py, zftj.py, 振幅平均60.py   the amplitude analyzers              *)
(*                     (specification AnalyzerSpec).                       *)
(* Prices, volumes and rates are exact rationals <<n, d>> with d > 0;      *)
(* the floating-point rounding of the Python code is not modelled.         *)
(***************************************************************************)
EXTENDS Integers, Sequences, FiniteSets, TLC

VARIABLES
    pc,              \* position of monitor_market
    symbol,          \* index into SYMBOLS of the instrument of the for loop
    last_volume,     \* locals of the loop body: -1 and Unassigned stand for
                     \* a local that is not yet assigned
    avg_volume,
    percent_change,
    funding_rate,
    sent,            \* rules for which send_message was called for `symbol`
    err,             \* what the except clause caught for `symbol`, or "none"
    fetches,         \* history: get_klines calls per instrument in this cycle
    due,             \* history: rules true on the data fetched for `symbol`
    klines_ok,       \* history: get_klines returned bars for `symbol`
    rec,             \* history: how the latest iteration of each instrument ended
    apc,             \* position of an analyzer run
    params,          \* the request parameters of the fetch in flight
    kline_data,      \* what the analyzer's fetch returned
    amplitude_mode,  \* ZF1: 'down_percent' or 'range'
    results,         \* analyze_klines: the list of entries returned
    analysis,        \* calculate_amplitude: the dict returned
    amplitudes,      \* argument of calculate_amplitude_distribution
    top_n,           \* get_top_amplitudes: its argument top_n
    top,             \* get_top_amplitudes: the list returned
    escaped,         \* the exception that left the analyzer, if one did
    tpc,             \* position of the trading bot (ok_ydgc.py)
    stop_trading,    \* the global flag of ok_ydgc.py
    current_investment,  \* local of main, a rational
    quantity,        \* local of main; 0 before its first assignment
    order_id,        \* local of main: index into orders; 0 before the first order
    orders           \* the exchange's record of the market orders accepted
                     \* from this process, each with its TP/SL order

mvars == <<pc, symbol, last_volume, avg_volume, percent_change, funding_rate,
           sent, err, fetches, due, klines_ok, rec>>
avars == <<apc, params, kline_data, amplitude_mode, results, analysis,
           amplitudes, top_n, top, escaped>>
tvars == <<tpc, stop_trading, current_investment, quantity, order_id, orders>>
vars == <<mvars, avars, tvars>>

(***************************************************************************)
(* Bounds of the model.                                                    *)
(***************************************************************************)
MaxPrice == 2        \* largest price of a bar given to an analyzer
MaxBars == 2         \* longest list of bars given to an analyzer
MaxAmpLen == 2       \* longest list given to calculate_amplitude_distribution
MaxAmpHalves == 21   \* largest amplitude of such a list, in halves of a percent
NumSymbols == 2      \* instruments tracked by the monitor
MonMaxBars == 2      \* longest window get_klines returns to the monitor
MonMaxVol == 3       \* largest bar volume seen by the monitor
MonMaxPrice == 1     \* largest open/close seen by the monitor
MaxFaultyBars == 3   \* longest payload in which some bar does not parse
MaxResults == 3      \* longest list given to get_top_amplitudes
MaxOrders == 3       \* market orders the exchange accepts from the trading bot

(***************************************************************************)
(* Exact rational arithmetic.                                              *)
(***************************************************************************)
Abs(x) == IF x < 0 THEN -x ELSE x
RLt(a, b) == a[1] * b[2] < b[1] * a[2]
RLe(a, b) == a[1] * b[2] <= b[1] * a[2]
RGt(a, b) == RLt(b, a)
REq(a, b) == a[1] * b[2] = b[1] * a[2]
RECURSIVE GCD(_, _)
GCD(a, b) == IF b = 0 THEN a ELSE GCD(b, a % b)
\* lowest terms, so that equal rationals are equal values
Norm(a) == LET g == GCD(Abs(a[1]), a[2]) IN <<a[1] \div g, a[2] \div g>>
RAdd(a, b) == Norm(<<a[1] * b[2] + b[1] * a[2], a[2] * b[2]>>)
RSub(a, b) == Norm(<<a[1] * b[2] - b[1] * a[2], a[2] * b[2]>>)
RMul(a, b) == Norm(<<a[1] * b[1], a[2] * b[2]>>)
RAbs(a) == <<Abs(a[1]), a[2]>>
RInt(n) == <<n, 1>>

RECURSIVE SumSeq(_)
SumSeq(s) == IF s = <<>> THEN 0 ELSE Head(s) + SumSeq(Tail(s))

(***************************************************************************)
(* 11bot.py: configuration and the three alert rules.                      *)
(***************************************************************************)
SYMBOLS == 1..NumSymbols
VOLUME_MULTIPLIER == 2
PERCENT_CHANGE_THRESHOLD == 3
FUNDING_THRESHOLD == <<1, 10>>          \* the literal 0.1 of line 56
Rules == <<"volume", "percent", "funding">>
RuleSet == {"volume", "percent", "funding"}

\* lastFundingRate values of the premium index, in units of 1/10000
\* (0.0010 is the edge of the funding rule).
LastFundingRates == {-11, 0, 10, 11}

\* funding_rate = float(data['lastFundingRate']) * 100
get_funding_rate(lastFundingRate) == RMul(<<lastFundingRate, 10000>>, RInt(100))

\* Windows the monitor may receive: the loop reads volume of every bar and
\* open/close of the last one only, so all bars of a window carry the same
\* open/close here.
VolSeqs(n) == [1..n -> 0..MonMaxVol]
MonWindows ==
    { [k \in 1..n |-> [open |-> o, close |-> c, volume |-> v[k]]] :
        <<n, o, c, v>> \in
          { q \in (0..MonMaxBars) \X (0..MonMaxPrice) \X (0..MonMaxPrice)
                  \X UNION { VolSeqs(m) : m \in 0..MonMaxBars } :
              DOMAIN q[4] = 1..q[1] } }

\* volumes = [float(k[5]) for k in klines[:-1]]
Volumes(klines) == [k \in 1..(Len(klines) - 1) |-> klines[k].volume]
\* avg_volume = sum(volumes) / len(volumes), for len(volumes) > 0
AvgVolume(volumes) == <<SumSeq(volumes), Len(volumes)>>
\* percent_change = ((close_price - open_price) / open_price) * 100, open > 0
PercentChange(open_price, close_price) ==
    RMul(<<close_price - open_price, open_price>>, RInt(100))

\* Mutant of VolumeSpike: a ratio last/avg that is taken as 0 when avg is 0.
VolumeSpikeGuardedRatio(lv, av) ==
    IF av[1] = 0 THEN FALSE
    ELSE RGt(<<lv * av[2], av[1]>>, RInt(2))

\* if last_volume > avg_volume * VOLUME_MULTIPLIER
VolumeSpike(lv, av) == RGt(RInt(lv), RMul(av, RInt(VOLUME_MULTIPLIER)))
\* if abs(percent_change) > PERCENT_CHANGE_THRESHOLD
PercentAbnormal(p) == RGt(RAbs(p), RInt(PERCENT_CHANGE_THRESHOLD))
\* if abs(funding_rate) > 0.1
FundingAbnormal(f) == RGt(RAbs(f), FUNDING_THRESHOLD)

(***************************************************************************)
(* What the three rules mean on raw data, stated without the code's        *)
(* operators: the history variable `due` is computed with these.           *)
(***************************************************************************)
VolumeRuleOn(klines) ==
    /\ Len(klines) >= 2
    /\ klines[Len(klines)].volume * (Len(klines) - 1)
         > 2 * SumSeq([k \in 1..(Len(klines) - 1) |-> klines[k].volume])
PercentRuleOn(klines) ==
    /\ Len(klines) >= 1
    /\ klines[Len(klines)].open > 0
    /\ 100 * Abs(klines[Len(klines)].close - klines[Len(klines)].open)
         > 3 * klines[Len(klines)].open
FundingRuleOn(lastFundingRate) == Abs(lastFundingRate) > 10
DueOnWindow(klines) ==
    (IF VolumeRuleOn(klines) THEN {"volume"} ELSE {}) \cup
    (IF PercentRuleOn(klines) THEN {"percent"} ELSE {})

NoData == [status |-> "none", data |-> <<>>]
NoAnalysis == [kind |-> "none"]
NoParams == [tool |-> "none", market |-> "none", interval |-> "none", limit |-> 0]
NoEscape == [by |-> "none", exception |-> "none"]
\* ok_ydgc.py lines 22-24
leverage == 10
initial_investment == <<2, 1>>
tp_rate == <<1, 20>>

\* ok_ydgc.py lines 30 and 111: main is about to enter its loop, and the
\* exchange holds no order of this process.
TradingIdle ==
    /\ tpc = "loop"
    /\ stop_trading = FALSE
    /\ current_investment = initial_investment
    /\ quantity = 0
    /\ order_id = 0
    /\ orders = <<>>

AnalyzerIdle ==
    /\ apc = "start"
    /\ params = NoParams
    /\ escaped = NoEscape
    /\ kline_data = NoData
    /\ amplitude_mode = "none"
    /\ results = <<>>
    /\ analysis = NoAnalysis
    /\ amplitudes = <<>>
    /\ top_n = 0
    /\ top = <<>>

\* a rational local of the loop body before its assignment
Unassigned == <<0, 0>>
NoRec == [status |-> "none", klines_ok |-> FALSE, due |-> {}, sent |-> <<>>]

Init ==
    /\ pc = "fetch"
    /\ symbol = 1
    /\ last_volume = -1
    /\ avg_volume = Unassigned
    /\ percent_change = Unassigned
    /\ funding_rate = Unassigned
    /\ sent = <<>>
    /\ err = "none"
    /\ fetches = [s \in SYMBOLS |-> 0]
    /\ due = {}
    /\ klines_ok = FALSE
    /\ rec = [s \in SYMBOLS |-> NoRec]
    /\ AnalyzerIdle
    /\ TradingIdle

\* An exception inside the try block: control goes to the except clause.
Raise(what) ==
    /\ pc' = "except"
    /\ err' = what

\* Lines 34-42: get_klines and the metrics of the window.
FetchAndCompute ==
    /\ pc = "fetch"
    /\ UNCHANGED <<avars, tvars>>
    /\ fetches' = [fetches EXCEPT ![symbol] = @ + 1]
    /\ sent' = <<>>
    /\ UNCHANGED <<symbol, funding_rate, rec>>
    /\ \/ \* get_klines raises, or returns something that is no list of bars
          /\ Raise("get_klines")
          /\ klines_ok' = FALSE
          /\ due' = {}
          /\ UNCHANGED <<last_volume, avg_volume, percent_change>>
       \/ \E klines \in MonWindows :
            /\ klines_ok' = TRUE
            /\ due' = DueOnWindow(klines)
            /\ IF Len(klines) = 0
               THEN \* klines[-1] of an empty list
                    /\ Raise("IndexError")
                    /\ UNCHANGED <<last_volume, avg_volume, percent_change>>
               ELSE IF Len(Volumes(klines)) = 0
               THEN \* sum(volumes) / len(volumes) with no preceding bar
                    /\ Raise("ZeroDivisionError: avg_volume")
                    /\ last_volume' = klines[Len(klines)].volume
                    /\ UNCHANGED <<avg_volume, percent_change>>
               ELSE IF klines[Len(klines)].open = 0
               THEN /\ Raise("ZeroDivisionError: percent_change")
                    /\ last_volume' = klines[Len(klines)].volume
                    /\ avg_volume' = AvgVolume(Volumes(klines))
                    /\ UNCHANGED percent_change
               ELSE /\ last_volume' = klines[Len(klines)].volume
                    /\ avg_volume' = AvgVolume(Volumes(klines))
                    /\ percent_change' = PercentChange(klines[Len(klines)].open,
                                                       klines[Len(klines)].close)
                    /\ pc' = "funding"
                    /\ UNCHANGED err

\* Line 45: funding_rate = get_funding_rate(symbol)
FetchFunding ==
    /\ pc = "funding"
    /\ UNCHANGED <<avars, tvars>>
    /\ UNCHANGED <<symbol, last_volume, avg_volume, percent_change, sent,
                   fetches, klines_ok, rec>>
    /\ \/ /\ Raise("get_funding_rate")
          /\ UNCHANGED <<funding_rate, due>>
       \/ \E r \in LastFundingRates :
            /\ funding_rate' = get_funding_rate(r)
            /\ due' = due \cup (IF FundingRuleOn(r) THEN {"funding"} ELSE {})
            /\ pc' = "volume"
            /\ UNCHANGED err

\* Mutant of Send: a send_message that raised is called once more before the
\* exception is passed on.
SendRetrying(rule, next) ==
    \/ /\ sent' = Append(sent, rule)
       /\ pc' = next
       /\ UNCHANGED err
    \/ /\ sent' = Append(Append(sent, rule), rule)
       /\ Raise("send_message")

\* bot.send_message(...) for one rule: the call returns or raises.
Send(rule, next) ==
    /\ sent' = Append(sent, rule)
    /\ \/ /\ pc' = next
          /\ UNCHANGED err
       \/ Raise("send_message")

Range(s) == { s[k] : k \in DOMAIN s }

\* Mutant of RuleVolume: an alert already sent for the instrument in the
\* previous cycle is not sent again.
RuleVolumeDebounced ==
    /\ pc = "volume"
    /\ UNCHANGED <<avars, tvars>>
    /\ UNCHANGED <<symbol, last_volume, avg_volume, percent_change,
                   funding_rate, fetches, due, klines_ok, rec>>
    /\ IF VolumeSpike(last_volume, avg_volume)
          /\ "volume" \notin Range(rec[symbol].sent)
       THEN Send("volume", "percent")
       ELSE /\ pc' = "percent"
            /\ UNCHANGED <<sent, err>>

\* Lines 48-49
RuleVolume ==
    /\ pc = "volume"
    /\ UNCHANGED <<avars, tvars>>
    /\ UNCHANGED <<symbol, last_volume, avg_volume, percent_change,
                   funding_rate, fetches, due, klines_ok, rec>>
    /\ IF VolumeSpike(last_volume, avg_volume)
       THEN Send("volume", "percent")
       ELSE /\ pc' = "percent"
            /\ UNCHANGED <<sent, err>>

\* Mutant of RulePercent: `elif`, the percent alert is merged into a volume
\* alert already sent for the instrument.
RulePercentElif ==
    /\ pc = "percent"
    /\ UNCHANGED <<avars, tvars>>
    /\ UNCHANGED <<symbol, last_volume, avg_volume, percent_change,
                   funding_rate, fetches, due, klines_ok, rec>>
    /\ IF PercentAbnormal(percent_change) /\ sent = <<>>
       THEN Send("percent", "fundrule")
       ELSE /\ pc' = "fundrule"
            /\ UNCHANGED <<sent, err>>

\* Lines 52-53
RulePercent ==
    /\ pc = "percent"
    /\ UNCHANGED <<avars, tvars>>
    /\ UNCHANGED <<symbol, last_volume, avg_volume, percent_change,
                   funding_rate, fetches, due, klines_ok, rec>>
    /\ IF PercentAbnormal(percent_change)
       THEN Send("percent", "fundrule")
       ELSE /\ pc' = "fundrule"
            /\ UNCHANGED <<sent, err>>

\* Lines 56-57
RuleFunding ==
    /\ pc = "fundrule"
    /\ UNCHANGED <<avars, tvars>>
    /\ UNCHANGED <<symbol, last_volume, avg_volume, percent_change,
                   funding_rate, fetches, due, klines_ok, rec>>
    /\ IF FundingAbnormal(funding_rate)
       THEN Send("funding", "pause")
       ELSE /\ pc' = "pause"
            /\ UNCHANGED <<sent, err>>

\* The for loop takes its next instrument, or ends and the cycle sleeps.
\* The locals are dead until the next iteration assigns them.
NextSymbol(status) ==
    /\ rec' = [rec EXCEPT ![symbol] =
                 [status |-> status, klines_ok |-> klines_ok,
                  due |-> due, sent |-> sent]]
    /\ last_volume' = -1
    /\ avg_volume' = Unassigned
    /\ percent_change' = Unassigned
    /\ funding_rate' = Unassigned
    /\ sent' = <<>>
    /\ err' = "none"
    /\ due' = {}
    /\ klines_ok' = FALSE
    /\ IF symbol < NumSymbols
       THEN /\ symbol' = symbol + 1
            /\ pc' = "fetch"
       ELSE /\ symbol' = symbol
            /\ pc' = "sleep"

\* Line 59: time.sleep(1) ends the iteration of an instrument.
Pause ==
    /\ pc = "pause"
    /\ UNCHANGED <<avars, tvars>>
    /\ NextSymbol("done")
    /\ UNCHANGED fetches

\* Mutant of HandleException: the exception leaves the loop.
HandleExceptionPropagates ==
    /\ pc = "except"
    /\ UNCHANGED <<avars, tvars>>
    /\ pc' = "terminated"
    /\ UNCHANGED <<symbol, last_volume, avg_volume, percent_change,
                   funding_rate, sent, err, fetches, due, klines_ok, rec>>

\* Mutant of HandleException: the failed instrument is tried again at once.
HandleExceptionRetries ==
    /\ pc = "except"
    /\ UNCHANGED <<avars, tvars>>
    /\ pc' = "fetch"
    /\ err' = "none"
    /\ UNCHANGED <<symbol, last_volume, avg_volume, percent_change,
                   funding_rate, sent, fetches, due, klines_ok, rec>>

\* Lines 61-63: except Exception as e: print(...); continue
HandleException ==
    /\ pc = "except"
    /\ UNCHANGED <<avars, tvars>>
    /\ NextSymbol(IF err = "send_message" THEN "send_failed" ELSE "failed")
    /\ UNCHANGED fetches

\* Mutant of Sleep: the loop ends after one cycle.
SleepEndsLoop ==
    /\ pc = "sleep"
    /\ UNCHANGED <<avars, tvars>>
    /\ pc' = "done"
    /\ UNCHANGED <<symbol, last_volume, avg_volume, percent_change, funding_rate,
                   sent, err, fetches, due, klines_ok, rec>>

\* Line 65: time.sleep(60), then `while True` starts the next cycle.
Sleep ==
    /\ pc = "sleep"
    /\ UNCHANGED <<avars, tvars>>
    /\ pc' = "fetch"
    /\ symbol' = 1
    /\ fetches' = [s \in SYMBOLS |-> 0]
    /\ UNCHANGED <<last_volume, avg_volume, percent_change, funding_rate,
                   sent, err, due, klines_ok, rec>>

Next ==
    \/ FetchAndCompute
    \/ FetchFunding
    \/ RuleVolume
    \/ RulePercent
    \/ RuleFunding
    \/ Pause
    \/ HandleException
    \/ Sleep

Spec == Init /\ [][Next]_vars

\* monitor_market is the only thread of the process and every call it makes
\* returns or raises: the loop always takes its next step (every step of
\* the loop changes pc).
FairSpec == Spec /\ WF_pc(Next)

(***************************************************************************)
(* The amplitude analyzers: ZF1.py, zftj.py and 振幅平均60.py.               *)
(***************************************************************************)
Prices == 0..MaxPrice
\* Bars as the exchange sends them: 0 <= low <= open, close <= high.
Bars == { b \in [open : Prices, high : Prices, low : Prices, close : Prices] :
            /\ b.low <= b.open /\ b.open <= b.high
            /\ b.low <= b.close /\ b.close <= b.high }
KlineLists == UNION { [1..n -> Bars] : n \in 0..MaxBars }
AmpValues == { Norm(<<h, 2>>) : h \in 0..MaxAmpHalves }
AmpLists == UNION { [1..n -> AmpValues] : n \in 1..MaxAmpLen }

Entry(i, k, amplitude, change_percent) ==
    [index |-> i, open |-> k.open, high |-> k.high, low |-> k.low,
     close |-> k.close, amplitude |-> amplitude,
     change_percent |-> change_percent]

\* sorted(results, key=lambda x: x['amplitude'], reverse=True): stable
RECURSIVE InsertDesc(_, _)
InsertDesc(e, s) ==
    IF s = <<>> THEN <<e>>
    ELSE IF RLt(Head(s).amplitude, e.amplitude) THEN <<e>> \o s
    ELSE <<Head(s)>> \o InsertDesc(e, Tail(s))
RECURSIVE SortedDesc(_)
SortedDesc(s) ==
    IF s = <<>> THEN <<>>
    ELSE InsertDesc(s[Len(s)], SortedDesc(SubSeq(s, 1, Len(s) - 1)))

\* ZF1.py line 80: ((high - low) / low) * 100 if low > 0 else 0.0
ZF1_range_amplitude(k) ==
    IF k.low > 0 THEN RMul(<<k.high - k.low, k.low>>, RInt(100)) ELSE RInt(0)
\* ZF1.py line 83: ((open - low) / open) * 100 if open > 0 else 0.0
ZF1_down_amplitude(k) ==
    IF k.open > 0 THEN RMul(<<k.open - k.low, k.open>>, RInt(100)) ELSE RInt(0)
\* ZF1.py line 85: ((close - open) / open) * 100 if open > 0 else 0.0
ZF1_change_percent(k) ==
    IF k.open > 0 THEN RMul(<<k.close - k.open, k.open>>, RInt(100)) ELSE RInt(0)

\* Mutant of ZF1_loop: a bar that did not fall is kept with amplitude 0.
RECURSIVE ZF1_loopZeroed(_, _, _)
ZF1_loopZeroed(data, mode, i) ==
    IF i > Len(data) THEN <<>>
    ELSE <<Entry(i, data[i],
                 IF data[i].close >= data[i].open THEN RInt(0)
                 ELSE IF mode = "range" THEN ZF1_range_amplitude(data[i])
                                        ELSE ZF1_down_amplitude(data[i]),
                 ZF1_change_percent(data[i]))>>
         \o ZF1_loopZeroed(data, mode, i + 1)

\* ZF1.py lines 65-98: the loop over the bars, from bar i on
RECURSIVE ZF1_loop(_, _, _)
ZF1_loop(data, mode, i) ==
    IF i > Len(data) THEN <<>>
    ELSE IF data[i].close >= data[i].open THEN ZF1_loop(data, mode, i + 1)
    ELSE <<Entry(i, data[i],
                 IF mode = "range" THEN ZF1_range_amplitude(data[i])
                                   ELSE ZF1_down_amplitude(data[i]),
                 ZF1_change_percent(data[i]))>>
         \o ZF1_loop(data, mode, i + 1)

\* ZF1.py analyze_klines; fetched is what get_kline_data returned
ZF1_analyze_klines(fetched, mode) ==
    IF fetched.status = "None" \/ fetched.data = <<>> THEN <<>>
    ELSE SortedDesc(ZF1_loop(fetched.data, mode, 1))

\* zftj.py lines 106-109
zftj_amplitude(k) ==
    IF k.low > 0 THEN RMul(<<k.high - k.low, k.low>>, RInt(100)) ELSE RInt(0)
\* zftj.py lines 112-115
zftj_change_percent(k) ==
    IF k.open > 0 THEN RMul(<<k.close - k.open, k.open>>, RInt(100)) ELSE RInt(0)
\* zftj.py analyze_klines
zftj_analyze_klines(fetched) ==
    IF fetched.status = "None" \/ fetched.data = <<>> THEN <<>>
    ELSE [i \in 1..Len(fetched.data) |->
            Entry(i, fetched.data[i], zftj_amplitude(fetched.data[i]),
                  zftj_change_percent(fetched.data[i]))]

\* Mutant of stats_amplitude: the range is taken relative to the low.
stats_amplitude_by_low(k) ==
    IF k.low > 0 THEN RMul(<<k.high - k.low, k.low>>, RInt(100)) ELSE RInt(0)

\* 振幅平均60.py lines 124-127
stats_amplitude(k) ==
    IF k.open > 0 THEN RMul(<<k.high - k.low, k.open>>, RInt(100)) ELSE RInt(0)

RECURSIVE RSum(_)
RSum(a) == IF a = <<>> THEN RInt(0) ELSE RAdd(Head(a), RSum(Tail(a)))
RECURSIVE InsertAsc(_, _)
InsertAsc(x, s) ==
    IF s = <<>> THEN <<x>>
    ELSE IF RLt(x, Head(s)) THEN <<x>> \o s
    ELSE <<Head(s)>> \o InsertAsc(x, Tail(s))
RECURSIVE SortedAsc(_)
SortedAsc(s) ==
    IF s = <<>> THEN <<>>
    ELSE InsertAsc(s[Len(s)], SortedAsc(SubSeq(s, 1, Len(s) - 1)))

\* statistics.mean, max, min, statistics.median
mean(a) == RMul(RSum(a), <<1, Len(a)>>)
max(a) == a[CHOOSE i \in DOMAIN a : \A j \in DOMAIN a : RLe(a[j], a[i])]
min(a) == a[CHOOSE i \in DOMAIN a : \A j \in DOMAIN a : RLe(a[i], a[j])]
median(a) ==
    LET s == SortedAsc(a)
        n == Len(a)
    IN IF n % 2 = 1 THEN s[(n + 1) \div 2]
       ELSE RMul(RAdd(s[n \div 2], s[n \div 2 + 1]), <<1, 2>>)
\* statistics.stdev is the square root of the sample variance; the model
\* keeps the variance, [sqrt_of |-> v] standing for sqrt(v).
variance(a) ==
    LET m == mean(a)
    IN RMul(RSum([i \in DOMAIN a |-> RMul(RSub(a[i], m), RSub(a[i], m))]),
            <<1, Len(a) - 1>>)
\* Mutant of stdev: the population standard deviation.
pstdev(a) ==
    LET m == mean(a)
    IN [sqrt_of |->
          RMul(RSum([i \in DOMAIN a |-> RMul(RSub(a[i], m), RSub(a[i], m))]),
               <<1, Len(a)>>)]
stdev(a) == [sqrt_of |-> variance(a)]
\* lines 158-161
std_deviation(a) == IF Len(a) > 1 THEN stdev(a) ELSE [sqrt_of |-> RInt(0)]
\* list.index
index(a, v) == CHOOSE i \in DOMAIN a : a[i] = v /\ \A j \in 1..(i - 1) : a[j] # v

\* lines 197-204: (min_val, max_val, label); unbounded stands for float('inf')
ranges ==
    << [min_val |-> 0, max_val |-> 1, unbounded |-> FALSE, label |-> "0-1%"],
       [min_val |-> 1, max_val |-> 2, unbounded |-> FALSE, label |-> "1-2%"],
       [min_val |-> 2, max_val |-> 3, unbounded |-> FALSE, label |-> "2-3%"],
       [min_val |-> 3, max_val |-> 5, unbounded |-> FALSE, label |-> "3-5%"],
       [min_val |-> 5, max_val |-> 10, unbounded |-> FALSE, label |-> "5-10%"],
       [min_val |-> 10, max_val |-> 10, unbounded |-> TRUE, label |-> ">10%"] >>
Labels == { ranges[k].label : k \in DOMAIN ranges }
RangeOf(label) == ranges[CHOOSE k \in DOMAIN ranges : ranges[k].label = label]

\* Mutant of InBucket: both edges of a bucket belong to it.
InBucketClosed(r, amp) ==
    /\ RLe(RInt(r.min_val), amp)
    /\ r.unbounded \/ RLe(amp, RInt(r.max_val))

\* line 210: min_val <= amp < max_val
InBucket(r, amp) ==
    /\ RLe(RInt(r.min_val), amp)
    /\ r.unbounded \/ RLt(amp, RInt(r.max_val))

\* 振幅平均60.py calculate_amplitude_distribution
calculate_amplitude_distribution(a) ==
    IF a = <<>> THEN [kind |-> "distribution", buckets |-> <<>>]
    ELSE [kind |-> "distribution",
          buckets |->
            [l \in Labels |->
               LET count == Cardinality({ i \in DOMAIN a : InBucket(RangeOf(l), a[i]) })
               IN [count |-> count,
                   percentage |-> RMul(<<count, Len(a)>>, RInt(100))]]]

\* the parse outcome of a bar of a payload: "none" when every field parses,
\* "price" when int()/float() of lines 116-121 raises ValueError, "time" when
\* the prices parse and datetime.fromtimestamp raises ValueError
Faults == {"none", "price", "time"}
NoFaults(klines) == [i \in DOMAIN klines |-> "none"]

\* 振幅平均60.py calculate_amplitude: a bar whose parsing raises is skipped
\* by the handler of lines 144-146, at the statement that raised
calculate_amplitude_skipping(klines, faults) ==
    IF klines = <<>> THEN [kind |-> "ValueError"]
    ELSE
      LET positions == [i \in 1..Len(klines) |-> i]
          \* line 129 is reached unless a price raised
          appended == SelectSeq(positions, LAMBDA i : faults[i] # "price")
          \* line 142 is reached unless anything raised
          detailed == SelectSeq(positions, LAMBDA i : faults[i] = "none")
          a == [j \in 1..Len(appended) |-> stats_amplitude(klines[appended[j]])]
          kline_details ==
              [j \in 1..Len(detailed) |->
                  [index |-> detailed[j],
                   open |-> klines[detailed[j]].open,
                   high |-> klines[detailed[j]].high,
                   low |-> klines[detailed[j]].low,
                   close |-> klines[detailed[j]].close,
                   amplitude |-> stats_amplitude(klines[detailed[j]])]]
      IN IF a = <<>> THEN [kind |-> "ValueError"]
         ELSE IF \/ index(a, max(a)) > Len(kline_details)
                 \/ index(a, min(a)) > Len(kline_details)
         THEN [kind |-> "IndexError"]
         ELSE
           [kind |-> "result",
            summary |->
              [total_klines |-> Len(a),
               average_amplitude |-> mean(a),
               median_amplitude |-> median(a),
               max_amplitude |-> max(a),
               min_amplitude |-> min(a),
               std_deviation |-> std_deviation(a),
               amplitude_range |-> RSub(max(a), min(a))],
            extremes |->
              [max_amplitude_kline |-> kline_details[index(a, max(a))],
               min_amplitude_kline |-> kline_details[index(a, min(a))]],
            distribution |-> calculate_amplitude_distribution(a),
            raw_data |-> kline_details]

\* 振幅平均60.py calculate_amplitude, for bars that all parse
calculate_amplitude(klines) ==
    calculate_amplitude_skipping(klines, NoFaults(klines))

(***************************************************************************)
(* The request of an analyzer run and the responses it may get.            *)
(***************************************************************************)
\* ZF1.py lines 15-19
MARKET_ENDPOINTS == {"spot", "futures"}
Markets == MARKET_ENDPOINTS \cup {"coin_m"}
\* 振幅平均60.py lines 348-349: the choices of --interval
IntervalChoices == {"1m", "3m", "5m", "15m", "30m", "1h", "2h", "4h",
                    "6h", "8h", "12h", "1d", "3d", "1w", "1M"}
\* interval tokens a run may be configured with; "7m" is no Binance interval
Intervals == {"1h", "7m"}
\* the bar counts of the three scripts as they stand
ZF1_kline_count == 500
zftj_kline_count == 1000
stats_limit == 1400
\* bar counts a caller may pass
Limits == {-5, 0, 1, 1001, ZF1_kline_count, zftj_kline_count, stats_limit}

Min(a, b) == IF a <= b THEN a ELSE b
Max(a, b) == IF a >= b THEN a ELSE b
\* ZF1.py line 41: min(max(1, int(limit)), 1000)
ZF1_limit(limit) == Min(Max(1, limit), 1000)

\* bars of the payloads in which some bar does not parse
SampleBars ==
    { [open |-> 100, high |-> 101, low |-> 90, close |-> 95],
      [open |-> 100, high |-> 102, low |-> 90, close |-> 95],
      [open |-> 100, high |-> 101, low |-> 90, close |-> 100] }
MalformedPayloads ==
    UNION { { [status |-> "malformed", data |-> d, faults |-> f] :
                d \in [1..n -> SampleBars],
                f \in [1..n -> Faults] \ {[i \in 1..n |-> "none"]} } :
            n \in 1..MaxFaultyBars }
\* What session.get and resp.json() may give: a RequestException (no
\* connection, timeout, HTTP error status), a body that is no JSON, a JSON
\* object instead of a list, a list of bars some of which do not parse, a
\* list of bars.
Responses ==
    { [status |-> "None", data |-> <<>>],
      [status |-> "not_json", data |-> <<>>],
      [status |-> "non_list", data |-> <<>>] }
    \cup MalformedPayloads
    \cup { [status |-> "ok", data |-> d] : d \in KlineLists }

Escape(tool, exception) ==
    /\ apc' = "raised"
    /\ escaped' = [by |-> tool, exception |-> exception]

\* ZF1.py main, __init__ and get_kline_data up to session.get
ZF1Request ==
    /\ apc = "start"
    /\ \E market \in Markets, interval \in Intervals, limit \in Limits :
         IF market \notin MARKET_ENDPOINTS
         THEN \* line 23: raise ValueError, nothing is requested
              /\ Escape("ZF1", "ValueError")
              /\ UNCHANGED params
         ELSE /\ apc' = "requesting"
              /\ params' = [tool |-> "ZF1", market |-> market,
                            interval |-> interval,
                            limit |-> ZF1_limit(limit)]
              /\ UNCHANGED escaped
    /\ UNCHANGED <<kline_data, amplitude_mode, results, analysis, amplitudes,
                   top_n, top>>
    /\ UNCHANGED <<mvars, tvars>>

\* zftj.py get_kline_data up to session.get
ZftjRequest ==
    /\ apc = "start"
    /\ apc' = "requesting"
    /\ \E interval \in Intervals, limit \in Limits :
         params' = [tool |-> "zftj", market |-> "spot",
                    interval |-> interval, limit |-> limit]
    /\ UNCHANGED <<kline_data, amplitude_mode, results, analysis, amplitudes,
                   top_n, top, escaped>>
    /\ UNCHANGED <<mvars, tvars>>

\* 振幅平均60.py main, analyze_symbol and get_klines up to session.get
StatsRequest ==
    /\ apc = "start"
    /\ \E interval \in Intervals, limit \in Limits :
         IF interval \notin IntervalChoices
         THEN \* parse_args rejects the token and exits
              /\ Escape("stats", "SystemExit")
              /\ UNCHANGED params
         ELSE /\ apc' = "requesting"
              /\ params' = [tool |-> "stats", market |-> "futures",
                            interval |-> interval, limit |-> limit]
              /\ UNCHANGED escaped
    /\ UNCHANGED <<kline_data, amplitude_mode, results, analysis, amplitudes,
                   top_n, top>>
    /\ UNCHANGED <<mvars, tvars>>

\* ZF1.py lines 65-86 raise ValueError: a price that does not parse, or the
\* open time of a falling bar (line 86 is behind the `continue` of line 75);
\* a JSON object is iterated by its keys, and int() of a letter raises
ZF1_raises(fetched) ==
    \/ fetched.status = "non_list"
    \/ /\ fetched.status = "malformed"
       /\ \E i \in DOMAIN fetched.data :
            \/ fetched.faults[i] = "price"
            \/ /\ fetched.faults[i] = "time"
               /\ fetched.data[i].close < fetched.data[i].open
\* zftj.py lines 98-118 raise ValueError
zftj_raises(fetched) == fetched.status \in {"non_list", "malformed"}

\* ZF1.py: analyze_klines(symbol, interval, kline_count, amplitude_mode) from
\* the response on. resp.json() of a body that is no JSON raises
\* requests.exceptions.JSONDecodeError, a RequestException (requests 2.27 on),
\* which line 49 catches like a failed request.
ZF1Analyze ==
    /\ apc = "requesting"
    /\ params.tool = "ZF1"
    /\ params' = NoParams
    /\ \E mode \in {"down_percent", "range"}, fetched \in Responses :
         /\ amplitude_mode' = mode
         /\ kline_data' = fetched
         /\ IF ZF1_raises(fetched)
            THEN /\ Escape("ZF1", "ValueError")
                 /\ results' = <<>>
            ELSE /\ apc' = "ZF1"
                 /\ results' = ZF1_analyze_klines(fetched, mode)
                 /\ UNCHANGED escaped
    /\ UNCHANGED <<analysis, amplitudes, top_n, top>>
    /\ UNCHANGED <<mvars, tvars>>

\* zftj.py: analyze_klines(symbol, interval, kline_count) from the response on
ZftjAnalyze ==
    /\ apc = "requesting"
    /\ params.tool = "zftj"
    /\ params' = NoParams
    /\ \E fetched \in Responses :
         /\ kline_data' = fetched
         /\ IF zftj_raises(fetched)
            THEN /\ Escape("zftj", "ValueError")
                 /\ results' = <<>>
            ELSE /\ apc' = "zftj"
                 /\ results' = zftj_analyze_klines(fetched)
                 /\ UNCHANGED escaped
    /\ UNCHANGED <<amplitude_mode, analysis, amplitudes, top_n, top>>
    /\ UNCHANGED <<mvars, tvars>>

\* the {} of line 340, with the exception the handler of line 338 caught
Empty(caught) == [kind |-> "empty", caught |-> caught]
\* 振幅平均60.py analyze_symbol from the response on: get_klines raises on a
\* failed request, a body that is no JSON and an empty payload; the keys of a
\* JSON object all fail to parse, which leaves no amplitude
analyze_symbol(fetched) ==
    IF fetched.status \in {"None", "not_json"} THEN Empty("Exception")
    ELSE IF fetched.status = "non_list" \/ fetched.data = <<>>
    THEN Empty("ValueError")
    ELSE LET r == IF fetched.status = "malformed"
                  THEN calculate_amplitude_skipping(fetched.data, fetched.faults)
                  ELSE calculate_amplitude(fetched.data)
         IN IF r.kind = "result" THEN r ELSE Empty(r.kind)

\* 振幅平均60.py: analyzer.analyze_symbol(symbol, interval, limit)
StatsAnalyze ==
    /\ apc = "requesting"
    /\ params.tool = "stats"
    /\ params' = NoParams
    /\ apc' = "stats"
    /\ \E fetched \in Responses :
         /\ kline_data' = fetched
         /\ analysis' = analyze_symbol(fetched)
    /\ UNCHANGED <<amplitude_mode, results, amplitudes, top_n, top, escaped>>
    /\ UNCHANGED <<mvars, tvars>>

\* calculate_amplitude_distribution(amplitudes) on a list of amplitudes
Distribution ==
    /\ apc = "start"
    /\ apc' = "distribution"
    /\ \E a \in AmpLists :
         /\ amplitudes' = a
         /\ analysis' = calculate_amplitude_distribution(a)
    /\ UNCHANGED <<params, kline_data, amplitude_mode, results, top_n, top,
                   escaped>>
    /\ UNCHANGED <<mvars, tvars>>

\* Python's s[:n], for n >= 0
Slice(s, n) == SubSeq(s, 1, Min(n, Len(s)))
\* ZF1.py line 105: return results[:top_n]
ZF1_get_top_amplitudes(rs, n) == Slice(rs, n)
\* Mutant of zftj_get_top_amplitudes: the sort is left out.
zftj_get_top_unsorted(rs, n) == Slice(rs, n)
\* zftj.py lines 145-146
zftj_get_top_amplitudes(rs, n) == Slice(SortedDesc(rs), n)

\* lists of results a caller may pass to get_top_amplitudes: entries in the
\* order of their bars, whatever their amplitudes
ResultLists ==
    { zftj_analyze_klines([status |-> "ok", data |-> d]) :
        d \in UNION { [1..n -> SampleBars] : n \in 0..MaxResults } }

\* ZF1.py: analyzer.get_top_amplitudes(results, top_n)
ZF1GetTop ==
    /\ apc = "start"
    /\ apc' = "ZF1_top"
    /\ \E rs \in ResultLists, n \in 0..(MaxResults + 1) :
         /\ results' = rs
         /\ top_n' = n
         /\ top' = ZF1_get_top_amplitudes(rs, n)
    /\ UNCHANGED <<params, kline_data, amplitude_mode, analysis, amplitudes,
                   escaped>>
    /\ UNCHANGED <<mvars, tvars>>

\* zftj.py: analyzer.get_top_amplitudes(results, top_n)
ZftjGetTop ==
    /\ apc = "start"
    /\ apc' = "zftj_top"
    /\ \E rs \in ResultLists, n \in 0..(MaxResults + 1) :
         /\ results' = rs
         /\ top_n' = n
         /\ top' = zftj_get_top_amplitudes(rs, n)
    /\ UNCHANGED <<params, kline_data, amplitude_mode, analysis, amplitudes,
                   escaped>>
    /\ UNCHANGED <<mvars, tvars>>

AnalyzerNext ==
    \/ ZF1Request
    \/ ZftjRequest
    \/ StatsRequest
    \/ ZF1Analyze
    \/ ZftjAnalyze
    \/ StatsAnalyze
    \/ Distribution
    \/ ZF1GetTop
    \/ ZftjGetTop

AnalyzerSpec == Init /\ [][AnalyzerNext]_vars

(***************************************************************************)
(* Properties of monitor_market.                                           *)
(***************************************************************************)
DueSeq(d) == SelectSeq(Rules, LAMBDA r : r \in d)
IsPrefix(s, t) == Len(s) <= Len(t) /\ \A k \in 1..Len(s) : s[k] = t[k]
\* instruments whose iteration of the current cycle has ended
Processed == { s \in SYMBOLS : s < symbol \/ pc = "sleep" }
RunningPcs == {"fetch", "funding", "volume", "percent", "fundrule", "pause",
               "except", "sleep"}

\* C1: an exception while fetching or evaluating one instrument (get_klines,
\* the metrics, get_funding_rate) never ends the loop, and every instrument
\* of the cycle is still fetched exactly once and evaluated on its own data:
\* an instrument whose own iteration raised nothing has one notification per
\* rule true on its data, however the other instruments ended.
C1_FailureIsolated ==
    /\ pc \in RunningPcs
    /\ \A s \in SYMBOLS :
         fetches[s] = IF s \in Processed \/ (s = symbol /\ pc # "fetch")
                      THEN 1 ELSE 0
    /\ \A s \in Processed :
         /\ rec[s].status # "none"
         /\ rec[s].status = "done" => rec[s].sent = DueSeq(rec[s].due)
    /\ pc = "except" => err # "none"

C1_Witness ==
    /\ pc = "sleep"
    /\ \E x, y \in SYMBOLS :
         /\ x < y
         /\ rec[x].status = "failed"
         /\ rec[y].status = "done"
         /\ rec[y].sent # <<>>

\* C2: in a cycle where the fetch of instrument A fails and instrument B is
\* fetched and only the volume rule is true on B's data, send_message is
\* called exactly once for B and never for A, the cycle is at its
\* end-of-cycle sleep after the last instrument, and no instrument is
\* fetched twice in a cycle.
C2_OneFailsOneAlerts ==
    /\ \A s \in SYMBOLS : fetches[s] <= 1
    /\ pc = "sleep" =>
         \A a, b \in SYMBOLS :
           ( /\ rec[a].status = "failed" /\ ~rec[a].klines_ok
             /\ rec[b].status \in {"done", "send_failed"}
             /\ rec[b].due = {"volume"} )
           => /\ rec[a].sent = <<>>
              /\ rec[b].sent = <<"volume">>
              /\ fetches[a] = 1
              /\ ( (\A s \in SYMBOLS \ {b} : rec[s].status = "failed")
                   => SumSeq([s \in 1..NumSymbols |-> Len(rec[s].sent)]) = 1 )

C2_Witness ==
    /\ pc = "sleep"
    /\ \E a, b \in SYMBOLS :
         /\ a < b
         /\ rec[a].status = "failed" /\ ~rec[a].klines_ok
         /\ rec[b].status = "done" /\ rec[b].due = {"volume"}
         /\ rec[b].sent = <<"volume">>
         /\ \A s \in SYMBOLS \ {b} : rec[s].status = "failed"

\* C3 as stated: every instrument whose bars were fetched gets as many
\* notifications as rules are true on its data.
C3_Original ==
    \A s \in Processed :
      rec[s].klines_ok => Len(rec[s].sent) = Cardinality(rec[s].due)

\* C3 as amended: an instrument whose iteration raised nothing (bars and
\* funding rate fetched, metrics computed, every send_message returned) gets
\* exactly one notification per rule true on its snapshot, none merged or
\* suppressed; an iteration that raised before the rules sends nothing, and
\* one whose send_message raised has sent a prefix of the due notifications.
C3_Amended ==
    /\ \A s \in Processed :
         /\ rec[s].status = "done" =>
              /\ rec[s].sent = DueSeq(rec[s].due)
              /\ Len(rec[s].sent) = Cardinality(rec[s].due)
         /\ rec[s].status = "failed" => rec[s].sent = <<>>
         /\ rec[s].status = "send_failed" =>
              /\ rec[s].sent # <<>>
              /\ IsPrefix(rec[s].sent, DueSeq(rec[s].due))
    /\ pc = "pause" => sent = DueSeq(due)

C3_Witness ==
    \E s \in Processed :
      /\ rec[s].status = "done"
      /\ Len(rec[s].sent) = 3

\* C4: alert evaluation keeps nothing between cycles. While an instrument is
\* processed rec[symbol] still holds how its previous iteration ended: a rule
\* true on the data of both cycles is sent in both, and what is sent depends
\* on the data of this cycle only.
C4_StatelessAcrossCycles ==
    pc = "pause" =>
      /\ sent = DueSeq(due)
      /\ rec[symbol].status = "done" =>
           \A r \in RuleSet :
             (r \in rec[symbol].due /\ r \in due)
               => (r \in Range(rec[symbol].sent) /\ r \in Range(sent))

C4_Witness ==
    /\ pc = "pause"
    /\ rec[symbol].status = "done"
    /\ "volume" \in rec[symbol].due
    /\ "volume" \in Range(rec[symbol].sent)
    /\ "volume" \in due
    /\ "volume" \in Range(sent)

\* the states in which the volume rule of `symbol` has been evaluated and
\* its send_message, if any, has returned
VolumeRuleEvaluated == pc \in {"percent", "fundrule", "pause"}

CycleStep ==
    /\ symbol' # symbol =>
         \/ pc \in {"pause", "except"} /\ symbol' = symbol + 1 /\ pc' = "fetch"
         \/ pc = "sleep" /\ symbol' = 1
    /\ (pc # "sleep" /\ pc' = "sleep") =>
         pc \in {"pause", "except"} /\ symbol = NumSymbols
    /\ pc = "sleep" => pc' = "fetch" /\ symbol' = 1
    /\ (pc \in {"pause", "except"} /\ symbol < NumSymbols) =>
         pc' = "fetch" /\ symbol' = symbol + 1

\* C13: monitor_market never reaches a terminal state: in every cycle each
\* instrument is visited exactly once, one at a time in configuration order,
\* then the cycle sleeps once, and a next cycle always follows.
C13_CyclesForever ==
    /\ [](pc \in RunningPcs)
    /\ [](\A s \in SYMBOLS :
            fetches[s] = IF s < symbol \/ pc = "sleep" \/ (s = symbol /\ pc # "fetch")
                         THEN 1 ELSE 0)
    /\ [][CycleStep]_<<pc, symbol>>
    /\ []<>(pc = "sleep")
    /\ []<>(pc = "fetch" /\ symbol = 1)

C13_Witness ==
    /\ pc = "fetch"
    /\ symbol = 1
    /\ \A s \in SYMBOLS : rec[s].status # "none"

\* send_message was called at most once for each rule
NoResend(calls) == \A i, j \in DOMAIN calls : calls[i] = calls[j] => i = j

\* C14: when a send_message call raises, the notification is not sent again
\* in that cycle (send_message is called at most once per rule and the
\* instrument is not fetched again), the except clause logs the failure, and
\* the loop goes on: the remaining instruments are processed and the cycle
\* reaches its end-of-cycle sleep.
C14_SendFailureLoggedAndSkipped ==
    /\ [](/\ NoResend(sent)
          /\ (pc = "except" /\ err = "send_message") =>
               sent # <<>> /\ fetches[symbol] = 1
          /\ \A s \in Processed :
               rec[s].status = "send_failed" =>
                 /\ rec[s].sent # <<>>
                 /\ NoResend(rec[s].sent)
                 /\ IsPrefix(rec[s].sent, DueSeq(rec[s].due))
                 /\ fetches[s] = 1
          /\ pc = "sleep" =>
               \A s \in SYMBOLS : rec[s].status # "none" /\ fetches[s] = 1)
    /\ [][(pc = "except" /\ err = "send_message") =>
            /\ rec'[symbol].status = "send_failed"
            /\ rec'[symbol].sent = sent
            /\ pc' = IF symbol < NumSymbols THEN "fetch" ELSE "sleep"]_<<pc, symbol>>
    /\ (pc = "except" /\ err = "send_message") ~> (pc = "sleep")

C14_Witness ==
    /\ pc = "sleep"
    /\ \E x, y \in SYMBOLS :
         /\ x < y
         /\ rec[x].status = "send_failed"
         /\ rec[x].sent = <<"volume", "percent">>
         /\ rec[y].status = "done"
         /\ rec[y].sent # <<>>

(***************************************************************************)
(* Properties of the analyzers.                                            *)
(***************************************************************************)
Fetched == kline_data.data
EntriesOf(i) == { k \in DOMAIN results : results[k].index = i }
\* amp = num / den * 100, for den > 0
IsPercentOf(amp, num, den) == amp[1] * den = 100 * num * amp[2]

\* C6: percent change is (close - open) / open * 100 for open > 0, and a bar
\* with open == 0 never gets a number as its percent change: the analysis
\* signals an error instead of returning an entry for it.
C6_PercentChangeSignalsZeroOpen ==
    apc \in {"ZF1", "zftj"} =>
      \A k \in DOMAIN results :
        /\ results[k].open > 0 =>
             IsPercentOf(results[k].change_percent,
                         results[k].close - results[k].open, results[k].open)
        /\ results[k].open # 0

\* C7: in the down-only mode of ZF1's analyze_klines a fetched bar has an
\* entry iff close < open, exactly one, whose amplitude is
\* (open - low) / open * 100; open 100, low 90, close 95 gives 10 and
\* open 100, close 105 gives no entry.
C7_DownOnlyMode ==
    (apc = "ZF1" /\ amplitude_mode = "down_percent") =>
      /\ \A i \in DOMAIN Fetched :
           Cardinality(EntriesOf(i))
             = IF Fetched[i].close < Fetched[i].open THEN 1 ELSE 0
      /\ \A k \in DOMAIN results :
           /\ results[k].index \in DOMAIN Fetched
           /\ LET b == Fetched[results[k].index]
              IN IsPercentOf(results[k].amplitude, b.open - b.low, b.open)
      /\ LET down == [open |-> 100, high |-> 105, low |-> 90, close |-> 95]
             up == [open |-> 100, high |-> 110, low |-> 98, close |-> 105]
             r == ZF1_analyze_klines([status |-> "ok", data |-> <<down, up>>],
                                     "down_percent")
         IN /\ Len(r) = 1
            /\ r[1].index = 1
            /\ r[1].amplitude = RInt(10)

C7_Witness ==
    /\ apc = "ZF1"
    /\ amplitude_mode = "down_percent"
    /\ Len(Fetched) = 2
    /\ Len(results) = 1
    /\ RGt(results[1].amplitude, RInt(0))

\* the range amplitude C8 states: (high - low) / low * 100, and 0 for low == 0
IsRangeAmplitude(amp, b) ==
    IF b.low = 0 THEN amp = RInt(0)
    ELSE IsPercentOf(amp, b.high - b.low, b.low)

\* C8 as stated: in ZF1's range mode, in zftj and in the statistics tool every
\* fetched bar gets the amplitude (high - low) / low * 100, and 0 for low == 0.
C8_Original ==
    /\ (apc = "zftj" \/ (apc = "ZF1" /\ amplitude_mode = "range")) =>
         \A i \in DOMAIN Fetched :
           \E k \in DOMAIN results :
             results[k].index = i /\ IsRangeAmplitude(results[k].amplitude, Fetched[i])
    /\ (apc = "stats" /\ kline_data.status = "ok" /\ analysis.kind = "result") =>
         \A i \in DOMAIN Fetched :
           IsRangeAmplitude(analysis.raw_data[i].amplitude, Fetched[i])

\* C8 as amended: zftj gives every fetched bar (high - low) / low * 100, and 0
\* for low == 0; ZF1's range mode gives that amplitude to the bars with
\* close < open and no entry to the others; the statistics tool gives every
\* bar (high - low) / open * 100, and 0 for open == 0.
C8_Amended ==
    /\ apc = "zftj" =>
         /\ Len(results) = Len(Fetched)
         /\ \A i \in DOMAIN Fetched :
              /\ results[i].index = i
              /\ IsRangeAmplitude(results[i].amplitude, Fetched[i])
    /\ (apc = "ZF1" /\ amplitude_mode = "range") =>
         /\ \A i \in DOMAIN Fetched :
              Cardinality(EntriesOf(i))
                = IF Fetched[i].close < Fetched[i].open THEN 1 ELSE 0
         /\ \A k \in DOMAIN results :
              IsRangeAmplitude(results[k].amplitude, Fetched[results[k].index])
    /\ (apc = "stats" /\ kline_data.status = "ok" /\ analysis.kind = "result") =>
         /\ Len(analysis.raw_data) = Len(Fetched)
         /\ \A i \in DOMAIN Fetched :
              LET amp == analysis.raw_data[i].amplitude
                  b == Fetched[i]
              IN IF b.open = 0 THEN amp = RInt(0)
                 ELSE IsPercentOf(amp, b.high - b.low, b.open)
    /\ IsRangeAmplitude(zftj_amplitude([open |-> 100, high |-> 110,
                                        low |-> 100, close |-> 105]), 
                        [open |-> 100, high |-> 110, low |-> 100, close |-> 105])
    /\ zftj_amplitude([open |-> 100, high |-> 110, low |-> 100, close |-> 105])
         = RInt(10)

C8_Witness ==
    /\ apc = "stats"
    /\ kline_data.status = "ok"
    /\ analysis.kind = "result"
    /\ \E i \in DOMAIN Fetched :
         /\ Fetched[i].low > 0
         /\ Fetched[i].open > Fetched[i].low
         /\ Fetched[i].high > Fetched[i].low
         /\ ~IsRangeAmplitude(analysis.raw_data[i].amplitude, Fetched[i])

\* bucket k of `ranges` as a half-open interval [lo, hi), the last unbounded
InHalfOpen(k, amp) ==
    /\ ranges[k].min_val * amp[2] <= amp[1]
    /\ k < Len(ranges) => amp[1] < ranges[k].max_val * amp[2]
CountsOf(d) == [k \in DOMAIN ranges |-> d.buckets[ranges[k].label].count]
PercentagesOf(d) == [k \in DOMAIN ranges |-> d.buckets[ranges[k].label].percentage]
Partitions(d, a) ==
    /\ \A i \in DOMAIN a :
         Cardinality({ k \in DOMAIN ranges : InHalfOpen(k, a[i]) }) = 1
    /\ \A k \in DOMAIN ranges :
         d.buckets[ranges[k].label].count
           = Cardinality({ i \in DOMAIN a : InHalfOpen(k, a[i]) })
    /\ SumSeq(CountsOf(d)) = Len(a)
    /\ RSum(PercentagesOf(d)) = RInt(100)

\* C9: calculate_amplitude_distribution partitions a non-empty list of
\* amplitudes: every amplitude is counted in exactly one half-open bucket
\* [lo, hi), the last one unbounded, the counts sum to the length of the list
\* and the percentages to 100 (in exact arithmetic); an amplitude on an edge
\* is counted in the upper bucket.
C9_DistributionPartitions ==
    /\ apc = "distribution" => Partitions(analysis, amplitudes)
    /\ (apc = "stats" /\ kline_data.status = "ok" /\ analysis.kind = "result") =>
         Partitions(analysis.distribution,
                    [i \in DOMAIN analysis.raw_data |-> analysis.raw_data[i].amplitude])
    /\ apc = "distribution" =>
         \A i \in DOMAIN amplitudes :
           /\ amplitudes[i] = RInt(1) => analysis.buckets["1-2%"].count >= 1
           /\ amplitudes[i] = RInt(10) => analysis.buckets[">10%"].count >= 1

C9_Witness ==
    /\ apc = "distribution"
    /\ Len(amplitudes) = 2
    /\ amplitudes[1] = RInt(1)
    /\ amplitudes[2] = RInt(5)
    /\ analysis.buckets["0-1%"].count = 0
    /\ analysis.buckets["1-2%"].count = 1
    /\ analysis.buckets["3-5%"].count = 0
    /\ analysis.buckets["5-10%"].count = 1

\* comparisons of rationals by cross-multiplication
Leq(a, b) == a[1] * b[2] <= b[1] * a[2]
NumLeq(a, x) == Cardinality({ i \in DOMAIN a : Leq(a[i], x) })
NumGeq(a, x) == Cardinality({ i \in DOMAIN a : Leq(x, a[i]) })
Squares(a) == [i \in DOMAIN a |-> RMul(a[i], a[i])]

\* C10: for a non-empty list of bars that parse calculate_amplitude raises nothing and
\* its summary holds the mean, the median, the maximum, the minimum, the
\* sample standard deviation (as its square, the sample variance) and
\* range = max - min of the amplitudes, with min <= median <= max and
\* min <= mean <= max; for a single amplitude the standard deviation is 0.
C10_SummaryStatistics ==
    (apc = "stats" /\ kline_data.status = "ok" /\ Fetched # <<>>) =>
      /\ analysis.kind = "result"
      /\ LET a == [i \in DOMAIN analysis.raw_data |-> analysis.raw_data[i].amplitude]
             n == Len(a)
             s == analysis.summary
         IN /\ n = Len(Fetched)
            /\ s.total_klines = n
            /\ RMul(s.average_amplitude, RInt(n)) = RSum(a)
            /\ \E i \in DOMAIN a : a[i] = s.max_amplitude
            /\ \E i \in DOMAIN a : a[i] = s.min_amplitude
            /\ \A i \in DOMAIN a : Leq(s.min_amplitude, a[i]) /\ Leq(a[i], s.max_amplitude)
            /\ 2 * NumLeq(a, s.median_amplitude) >= n
            /\ 2 * NumGeq(a, s.median_amplitude) >= n
            /\ n % 2 = 1 => \E i \in DOMAIN a : a[i] = s.median_amplitude
            /\ n % 2 = 0 =>
                 \E i, j \in DOMAIN a :
                   /\ i # j
                   /\ RAdd(a[i], a[j]) = RMul(s.median_amplitude, RInt(2))
                   /\ 2 * NumLeq(a, a[i]) >= n
                   /\ 2 * NumGeq(a, a[j]) >= n
            /\ s.amplitude_range = RSub(s.max_amplitude, s.min_amplitude)
            /\ Leq(s.min_amplitude, s.median_amplitude)
            /\ Leq(s.median_amplitude, s.max_amplitude)
            /\ Leq(s.min_amplitude, s.average_amplitude)
            /\ Leq(s.average_amplitude, s.max_amplitude)
            /\ n = 1 => s.std_deviation.sqrt_of = RInt(0)
            /\ n > 1 =>
                 RMul(s.std_deviation.sqrt_of, RInt(n - 1))
                   = RSub(RSum(Squares(a)),
                          RMul(RInt(n), RMul(s.average_amplitude, s.average_amplitude)))
      /\ LET k(o, h, l) == [open |-> o, high |-> h, low |-> l, close |-> o]
             three == calculate_amplitude(<<k(100, 101, 100), k(100, 102, 100),
                                            k(100, 103, 100)>>).summary
             one == calculate_amplitude(<<k(100, 105, 100)>>).summary
         IN /\ three.average_amplitude = RInt(2)
            /\ three.median_amplitude = RInt(2)
            /\ three.max_amplitude = RInt(3)
            /\ three.min_amplitude = RInt(1)
            /\ three.std_deviation.sqrt_of = RInt(1)
            /\ one.std_deviation.sqrt_of = RInt(0)

C10_Witness ==
    /\ apc = "stats"
    /\ kline_data.status = "ok"
    /\ analysis.kind = "result"
    /\ analysis.summary.total_klines = 2
    /\ RGt(analysis.summary.std_deviation.sqrt_of, RInt(0))
    /\ RGt(analysis.summary.max_amplitude, analysis.summary.average_amplitude)

(***************************************************************************)
(* Properties of the analyzers' requests and of their failure handling.    *)
(***************************************************************************)
\* C11: every bar request sent to the data source carries a limit in
\* [1, 1000], whatever bar count the caller passes (0, negative, above 1000,
\* the scripts' own defaults).
C11_LimitClampedInRequest ==
    apc = "requesting" => (params.limit >= 1 /\ params.limit <= 1000)

\* the fetch failed: the request failed, the body is no JSON or no list, or
\* a bar of the list does not parse
FetchFailed == kline_data.status \in {"None", "not_json", "non_list", "malformed"}

\* C12: every kind of fetch failure is handled alike: no exception leaves the
\* analysis entry point and the result is the empty one (analyze_klines
\* returns [], analyze_symbol returns {}), never a partial result.
C12_FetchFailuresCollapse ==
    FetchFailed =>
      /\ escaped = NoEscape
      /\ apc \in {"ZF1", "zftj"} => results = <<>>
      /\ apc = "stats" => analysis.kind = "empty"

\* C15: an invalid configuration (unknown interval token, unknown market)
\* ends the process at startup with an error, before any fetch is made: a
\* request is only ever sent with a supported interval and a known market.
C15_InvalidConfigurationFailsAtStartup ==
    apc = "requesting" =>
      /\ params.interval \in IntervalChoices
      /\ params.market \in MARKET_ENDPOINTS

(***************************************************************************)
(* Properties of the ranking.                                              *)
(***************************************************************************)
NonIncreasing(rs) ==
    \A i, j \in DOMAIN rs : i < j => RLe(rs[j].amplitude, rs[i].amplitude)
\* t holds min(n, len) different entries of rs, and no entry left out has a
\* larger amplitude than an entry of t
TrueTopN(t, rs, n) ==
    /\ Len(t) = Min(n, Len(rs))
    /\ \A i \in DOMAIN t : \E k \in DOMAIN rs : rs[k] = t[i]
    /\ \A i, j \in DOMAIN t : t[i] = t[j] => i = j
    /\ \A i \in DOMAIN t, k \in DOMAIN rs :
         (\A j \in DOMAIN t : t[j] # rs[k]) => RLe(rs[k].amplitude, t[i].amplitude)

\* C16 as stated: ZF1's analyze_klines returns its entries in non-increasing
\* order of amplitude, and get_top_amplitudes(results, top_n) of either
\* script returns a true top-N of any list passed to it.
C16_Original ==
    /\ apc = "ZF1" => NonIncreasing(results)
    /\ apc \in {"ZF1_top", "zftj_top"} => TrueTopN(top, results, top_n)

\* C16 as amended: ZF1's analyze_klines returns its entries in non-increasing
\* order of amplitude; zftj's get_top_amplitudes returns a true top-N of any
\* list, for top_n >= 0; ZF1's get_top_amplitudes returns the first
\* min(top_n, len(results)) entries of the list as passed, a true top-N when
\* the list is in non-increasing order of amplitude, as the list returned by
\* ZF1's analyze_klines is.
C16_Amended ==
    /\ apc = "ZF1" =>
         /\ NonIncreasing(results)
         /\ \A n \in 0..(MaxResults + 1) :
              TrueTopN(ZF1_get_top_amplitudes(results, n), results, n)
    /\ apc = "zftj_top" => TrueTopN(top, results, top_n)
    /\ apc = "ZF1_top" =>
         /\ Len(top) = Min(top_n, Len(results))
         /\ IsPrefix(top, results)
         /\ NonIncreasing(results) => TrueTopN(top, results, top_n)

C16_Witness ==
    /\ apc = "zftj_top"
    /\ Len(results) = 3
    /\ RLt(results[1].amplitude, results[3].amplitude)
    /\ top_n = 1
    /\ top = <<results[3]>>

\* C19: in a result of the statistics tool the amplitude list and the detail
\* list are aligned, also when bars were skipped: summary.total_klines is the
\* length of raw_data, and the extreme bars are bars whose amplitude is the
\* summary's maximum and minimum.
C19_AmplitudesAlignedWithDetails ==
    (apc = "stats" /\ analysis.kind = "result") =>
        /\ analysis.summary.total_klines = Len(analysis.raw_data)
        /\ analysis.extremes.max_amplitude_kline.amplitude
               = analysis.summary.max_amplitude
        /\ analysis.extremes.min_amplitude_kline.amplitude
               = analysis.summary.min_amplitude

(***************************************************************************)
(* The trading bot, ok_ydgc.py.  The process is main; the exchange fills   *)
(* and cancels market orders and ends TP/SL (OCO) orders on its own.       *)
(***************************************************************************)
\* what get_market_price may return: 0 stands for None and for 0.0, which
\* `not market_price` treats alike
MarketPrices == {0, 10, 25}
\* a market order as the exchange accepted it: not yet filled, without a
\* TP/SL order
NewOrder == [state |-> "live", algo |-> "none"]
\* line 121: math.floor(current_investment * float(leverage) / market_price)
position_size(investment, price) ==
    (investment[1] * leverage) \div (investment[2] * price)
\* The exchange cancels an order only while it is not filled.
cancel_order(os, id) ==
    IF os[id].state = "live" THEN [os EXCEPT ![id].state = "canceled"] ELSE os

\* Lines 113-125: the loop test, get_market_price and the position size.
GetMarketPrice ==
    /\ tpc = "loop"
    /\ IF stop_trading
       THEN /\ tpc' = "returned"
            /\ UNCHANGED quantity
       ELSE \E market_price \in MarketPrices :
              IF market_price = 0
              THEN UNCHANGED <<tpc, quantity>>
              ELSE /\ quantity' = position_size(current_investment, market_price)
                   /\ tpc' = IF quantity' <= 0 THEN "loop" ELSE "place_order"
    /\ UNCHANGED <<stop_trading, current_investment, order_id, orders>>
    /\ UNCHANGED <<mvars, avars>>

\* Lines 128-131: place_market_order, accepted by the exchange or not.
PlaceMarketOrder ==
    /\ tpc = "place_order"
    /\ \E accepted \in BOOLEAN :
         IF accepted
         THEN /\ Len(orders) < MaxOrders
              /\ orders' = Append(orders, NewOrder)
              /\ order_id' = Len(orders) + 1
              /\ tpc' = "get_order"
         ELSE /\ tpc' = "loop"
              /\ UNCHANGED <<order_id, orders>>
    /\ UNCHANGED <<stop_trading, current_investment, quantity>>
    /\ UNCHANGED <<mvars, avars>>

\* Lines 134-136 and 162: after 2 seconds get_order; anything but code "0"
\* with state 'filled' leads to the sleep of line 162 and the next iteration.
GetOrder ==
    /\ tpc = "get_order"
    /\ \E code_ok \in BOOLEAN :
         tpc' = IF code_ok /\ orders[order_id].state = "filled"
                THEN "place_tp_sl" ELSE "loop"
    /\ UNCHANGED <<stop_trading, current_investment, quantity, order_id, orders>>
    /\ UNCHANGED <<mvars, avars>>

\* Lines 139-140: place_take_profit_stop_loss returns an algoId or None.
PlaceTakeProfitStopLoss ==
    /\ tpc = "place_tp_sl"
    /\ \E accepted \in BOOLEAN :
         IF accepted
         THEN /\ orders' = [orders EXCEPT ![order_id].algo = "live"]
              /\ tpc' = "monitor"
         ELSE /\ tpc' = "cancel_order"
              /\ UNCHANGED orders
    /\ UNCHANGED <<stop_trading, current_investment, quantity, order_id>>
    /\ UNCHANGED <<mvars, avars>>

\* Lines 141-142: cancel_order for the order just seen filled, then continue.
CancelOrder ==
    /\ tpc = "cancel_order"
    /\ orders' = cancel_order(orders, order_id)
    /\ tpc' = "loop"
    /\ UNCHANGED <<stop_trading, current_investment, quantity, order_id>>
    /\ UNCHANGED <<mvars, avars>>

\* Line 146: the name get_orders_algo_history is defined nowhere, so the
\* first pass of the monitoring loop raises NameError; lines 147-159 are
\* never reached.
MonitorRaises ==
    /\ tpc = "monitor"
    /\ tpc' = "raised"
    /\ UNCHANGED <<stop_trading, current_investment, quantity, order_id, orders>>
    /\ UNCHANGED <<mvars, avars>>

\* Lines 165-169: the exception leaves main and is printed; the script ends.
MainExcept ==
    /\ tpc = "raised"
    /\ tpc' = "exited"
    /\ UNCHANGED <<stop_trading, current_investment, quantity, order_id, orders>>
    /\ UNCHANGED <<mvars, avars>>

\* The exchange fills a market order.
OrderFills ==
    /\ \E i \in DOMAIN orders :
         /\ orders[i].state = "live"
         /\ orders' = [orders EXCEPT ![i].state = "filled"]
    /\ UNCHANGED <<tpc, stop_trading, current_investment, quantity, order_id>>
    /\ UNCHANGED <<mvars, avars>>

\* The exchange cancels a market order it cannot fill.
OrderCanceled ==
    /\ \E i \in DOMAIN orders :
         /\ orders[i].state = "live"
         /\ orders' = [orders EXCEPT ![i].state = "canceled"]
    /\ UNCHANGED <<tpc, stop_trading, current_investment, quantity, order_id>>
    /\ UNCHANGED <<mvars, avars>>

\* A TP/SL order ends through one of its legs.
OcoEnds ==
    /\ \E i \in DOMAIN orders, leg \in {"sl", "tp"} :
         /\ orders[i].algo = "live"
         /\ orders' = [orders EXCEPT ![i].algo = leg]
    /\ UNCHANGED <<tpc, stop_trading, current_investment, quantity, order_id>>
    /\ UNCHANGED <<mvars, avars>>

\* the steps of main
TradingProcess ==
    \/ GetMarketPrice
    \/ PlaceMarketOrder
    \/ GetOrder
    \/ PlaceTakeProfitStopLoss
    \/ CancelOrder
    \/ MonitorRaises
    \/ MainExcept

TradingNext ==
    \/ GetMarketPrice
    \/ PlaceMarketOrder
    \/ GetOrder
    \/ PlaceTakeProfitStopLoss
    \/ CancelOrder
    \/ MonitorRaises
    \/ MainExcept
    \/ OrderFills
    \/ OrderCanceled
    \/ OcoEnds

TradingSpec == Init /\ [][TradingNext]_vars
\* main keeps running while it can; nothing is assumed of the exchange
TradingFairSpec == TradingSpec /\ WF_tvars(TradingProcess)

(***************************************************************************)
(* Properties of the trading bot.                                          *)
(***************************************************************************)
Reinvested(investment) == RAdd(investment, RMul(investment, tp_rate))
\* C17: stop_trading is true only after a TP/SL order ended through its
\* stop-loss leg, and then no market order is placed any more; when the TP/SL
\* order main watches has ended through its stop-loss leg, stop_trading
\* becomes true and main returns; when it has ended through its take-profit
\* leg, stop_trading stays false, current_investment becomes
\* current_investment * (1 + tp_rate) and main goes on to a next iteration.
C17_StopLossStopsTakeProfitReinvests ==
    /\ [](stop_trading => \E i \in DOMAIN orders : orders[i].algo = "sl")
    /\ [][stop_trading => Len(orders') = Len(orders)]_tvars
    /\ (tpc = "monitor" /\ orders[order_id].algo = "sl")
           ~> (stop_trading /\ tpc = "returned")
    /\ (tpc = "monitor" /\ orders[order_id].algo = "tp")
           ~> (/\ ~stop_trading
               /\ current_investment = Reinvested(initial_investment)
               /\ tpc = "loop")

\* a market order that cannot be, or become, a position without TP/SL order
Covered(order) == order.state = "canceled" \/ order.algo # "none"
\* C18: when a market order is submitted and accepted, every market order
\* accepted earlier is cancelled unfilled or covered by a TP/SL order.
C18_NoUncoveredPositionBeforeNextOrder ==
    [][Len(orders') > Len(orders) =>
          \A i \in DOMAIN orders : Covered(orders[i])]_tvars

====
